---- MODULE Spec2Model ----
(***************************************************************************)
(* A model of liuyao.py: the /start, /profile and text-message handlers of *)
(* the bot, the quota refresh they share, and the loop of handle_message   *)
(* that turns the fragments of a chat-completion stream into outbound      *)
(* sends and edits.  The functions of superbase_client and the bot and     *)
(* chat SDKs are outside the file: each call is modelled by its possible   *)
(* results as the handlers tell them apart (a value, None, an exception).  *)
(*                                                                         *)
(* Strings are sequences of one-character strings.  The Chinese literals   *)
(* of the source are written with one ASCII stand-in per character, so     *)
(* that lengths are those of the source.  The application is built with    *)
(* the default builder (no concurrent updates), so one handler runs at a   *)
(* time: pc = "idle" between runs.  The variables out, shown, frags,       *)
(* fetched, created, streams, updates and raised record what the current   *)
(* (or, when idle, the last) run did; they are cleared at each dispatch.   *)
(*                                                                         *)
(* SpecOverlap is a second specification, of what the handlers do when     *)
(* runs of one user overlap: a run is suspended at an await and another    *)
(* run goes on.  It follows start and handle_message up to the opening of  *)
(* the stream, over the user_data they share and a backend that counts     *)
(* the projects of the day.                                                *)
(***************************************************************************)
EXTENDS Integers, Sequences, FiniteSets, TLC

----------------------------------------------------------------------------
(* Bounds of the model *)

MaxFrags == 3
MaxLimit == 1
MaxUsed == 1
MaxRuns == 3

----------------------------------------------------------------------------
(* Strings *)

Rep(c, n) == [i \in 1..n |-> c]

Drop(s, n) == SubSeq(s, n + 1, Len(s))

StartsWith(s, p) == Len(s) >= Len(p) /\ SubSeq(s, 1, Len(p)) = p

EndsWith(s, p) == Len(s) >= Len(p) /\ SubSeq(s, Len(s) - Len(p) + 1, Len(s)) = p

\* s[i:].startswith(p)
MatchAt(s, i, p) == i + Len(p) - 1 <= Len(s) /\ SubSeq(s, i, i + Len(p) - 1) = p

Contains(s, p) == \E i \in 1..Len(s) : MatchAt(s, i, p)

\* the concatenation of pieces[lo..hi], by halves
RECURSIVE Flatten(_, _, _)
Flatten(pieces, lo, hi) ==
    IF lo > hi THEN <<>>
    ELSE IF lo = hi THEN pieces[lo]
    ELSE LET mid == (lo + hi) \div 2
         IN Flatten(pieces, lo, mid) \o Flatten(pieces, mid + 1, hi)

\* str.replace(old, new): the occurrences of old, left to right, not overlapping.
\* An occurrence is replaced unless it starts inside a replaced one.
Replace(s, old, new) ==
    LET RECURSIVE Taken(_)
        Before(i) == {j \in (i - Len(old) + 1)..(i - 1) : j >= 1}
        Taken(i) == /\ MatchAt(s, i, old)
                    /\ \A j \in Before(i) : ~(MatchAt(s, j, old) /\ Taken(j))
        Inside(i) == \E j \in Before(i) : MatchAt(s, j, old) /\ Taken(j)
        pieces == [i \in 1..Len(s) |->
                      IF Taken(i) THEN new
                      ELSE IF Inside(i) THEN <<>>
                      ELSE <<s[i]>>]
    IN Flatten(pieces, 1, Len(s))

\* str.split(sep): the parts between the occurrences of sep, at least one part
Split(s, sep) ==
    LET P[i \in 1..(Len(s) + 1)] ==
            IF i > Len(s) THEN <<<<>>>>
            ELSE IF MatchAt(s, i, sep) THEN <<<<>>>> \o P[i + Len(sep)]
            ELSE LET rest == P[i + 1] IN <<<<s[i]>> \o rest[1]>> \o Drop(rest, 1)
    IN P[1]

\* s[:-1]
DropLast(s) == IF s = <<>> THEN <<>> ELSE SubSeq(s, 1, Len(s) - 1)

----------------------------------------------------------------------------
(* Literals of the source *)

BUFFER_SIZE == 30

BrBr == <<"<", "b", "r", ">", "<", "b", "r", ">">>
Newline == <<"\n">>
ImgOpen == <<"!", "[">>
ImgMid == <<"]", "(">>
ImgClose == <<")">>
\* "开始起卦"
StatusMarker == <<"K", "S", "Q", "G">>
\* "您所问的事："
HeaderHead == <<"N", "S", "W", "D", "S", ":">>
\* "\n\n卦象解析：\n"
HeaderTail == <<"\n", "\n", "G", "X", "J", "X", ":", "\n">>

\* the fixed replies, one token each: nothing in the code looks inside them
ExhaustedNotice == <<"EXHAUSTED">>
QuestionPrompt == <<"PROMPT">>
SystemError == <<"SYSTEM_ERROR">>
GenericFailure == <<"GENERIC_FAILURE">>
StartFirst == <<"START_FIRST">>

Header(q) == HeaderHead \o q \o HeaderTail

----------------------------------------------------------------------------
(* Inputs *)

Questions == {<<"q">>}

FragA == <<"a">>
FragTail29 == Rep("x", 23) \o <<"<", "b", "r", ">", "<", "b">>
FragHead30 == <<"r", ">">> \o Rep("y", 28)
FragImage == ImgOpen \o <<"i">> \o ImgMid \o <<"u">> \o ImgClose
FragStatus == StatusMarker \o <<".">>
\* an image followed by a link in one fragment: "![i](u)[l](v)"
FragImageLink == FragImage \o <<"[", "l">> \o ImgMid \o <<"v">> \o ImgClose

Fragments == {FragA, BrBr, FragTail29, FragHead30, FragImage, FragStatus,
              FragImageLink}

----------------------------------------------------------------------------
VARIABLES
    user_data,        \* context.user_data of the chat
    handler,          \* the handler running, or the last one that ran
    pc,               \* its position; "idle" when none runs
    question,         \* locals of handle_message
    project,          \* "unset", "some" or "None"
    messages,
    text_buffer,
    message,          \* TRUE when message is not None
    content_buffer,
    out,              \* the outbound operations issued by the run, in order
    shown,            \* the text the answer message displays, <<>> when none
    frags,            \* the delta fragments the stream delivered so far
    fetched,          \* what the run's quota refresh fetched
    created,          \* create_project calls of the run
    streams,          \* chat streams opened by the run
    stream_end,       \* how the stream of the run ended, "none" until it does
    updates,          \* the message lists passed to update_project_messages
    raised,           \* the run ended by an exception no handler code caught
    runs,             \* SpecOverlap: the handler runs so far, in dispatch order
    backend           \* SpecOverlap: the quota and the projects of the day

vars == <<user_data, handler, pc, question, project, messages, text_buffer,
          message, content_buffer, out, shown, frags, fetched, created,
          streams, stream_end, updates, raised, runs, backend>>

\* the state of the one run that Spec follows
single == <<handler, pc, question, project, messages, text_buffer, message,
            content_buffer, out, shown, frags, fetched, created, streams,
            stream_end, updates, raised>>

\* the state of overlapping runs
overlap == <<runs, backend>>

locals == <<question, project, messages, text_buffer, message, content_buffer>>
calls == <<created, streams, stream_end, updates>>

NoFetch == [state |-> "none", limit |-> 0, used |-> 0]

\* an outbound operation: the place of the handler that issued it, the call,
\* its text (the URL of a photo), whether it succeeded, and how many
\* fragments had arrived
Op(site, kind, text, ok) ==
    [site |-> site, op |-> kind, text |-> text, ok |-> ok, at |-> Len(frags)]

\* the same, issued while the next fragment is handled
DeltaOp(site, kind, text, ok) ==
    [Op(site, kind, text, ok) EXCEPT !.at = Len(frags) + 1]

Init ==
    /\ user_data = [has |-> FALSE, daily_limit |-> 0, daily_count |-> 0,
                    waiting_for_question |-> FALSE]
    /\ handler = "none"
    /\ pc = "idle"
    /\ question = <<>>
    /\ project = "unset"
    /\ messages = <<>>
    /\ text_buffer = <<>>
    /\ message = FALSE
    /\ content_buffer = <<>>
    /\ out = <<>>
    /\ shown = <<>>
    /\ frags = <<>>
    /\ fetched = NoFetch
    /\ created = 0
    /\ streams = 0
    /\ stream_end = "none"
    /\ updates = <<>>
    /\ raised = FALSE
    /\ runs = <<>>
    /\ backend = [daily_limit |-> 0, used |-> 0]

\* a handler is dispatched: what the last run left behind is cleared
Dispatch(h) ==
    /\ pc = "idle"
    /\ handler' = h
    /\ question' = <<>>
    /\ project' = "unset"
    /\ messages' = <<>>
    /\ text_buffer' = <<>>
    /\ message' = FALSE
    /\ content_buffer' = <<>>
    /\ shown' = <<>>
    /\ frags' = <<>>
    /\ fetched' = NoFetch
    /\ created' = 0
    /\ streams' = 0
    /\ stream_end' = "none"
    /\ updates' = <<>>
    /\ UNCHANGED user_data

\* first_name + " " + last_name, the argument of initialize_user_data: a
\* TypeError when the user has no last name, and the handler ends there
EnterRefresh(at) ==
    /\ out' = <<>>
    /\ \E last_name \in BOOLEAN :
          /\ pc' = IF last_name THEN at ELSE "idle"
          /\ raised' = ~last_name

----------------------------------------------------------------------------
(* initialize_user_data *)

\* the session after a refresh that resolved the user
Refreshed(ud, limit, used) ==
    [ud EXCEPT !.has = TRUE, !.daily_limit = limit, !.daily_count = limit - used]

\* the whole of initialize_user_data, entered at pc = at, leaving at pc = to
Refresh(at, to) ==
    /\ pc = at
    /\ pc' = to
    /\ \/ /\ user_data' = user_data
          /\ fetched' = [state |-> "failed", limit |-> 0, used |-> 0]
       \/ \E limit \in 0..MaxLimit, used \in 0..MaxUsed :
             /\ user_data' = Refreshed(user_data, limit, used)
             /\ fetched' = [state |-> "ok", limit |-> limit, used |-> used]
    /\ UNCHANGED <<handler, locals, out, shown, frags, calls, raised>>

\* the gate letting an allowance of 0 through
ExhaustedBelowZero(ud) == ud.daily_count < 0

\* context.user_data['daily_count'] <= 0
Exhausted(ud) == ud.daily_count <= 0

\* the handler ends by an exception it does not catch
Raise ==
    /\ pc' = "idle"
    /\ raised' = TRUE

----------------------------------------------------------------------------
(* start *)

StartDispatch ==
    /\ Dispatch("start")
    /\ EnterRefresh("s_refresh")

StartRefresh == Refresh("s_refresh", "s_gate")

\* the session after the prompt for the question
Prompted(ud) == [ud EXCEPT !.waiting_for_question = TRUE]

StartGate ==
    /\ pc = "s_gate"
    /\ IF ~user_data.has
       THEN Raise /\ UNCHANGED <<user_data, out>>
       ELSE IF Exhausted(user_data)
       THEN /\ out' = Append(out, Op("gate", "reply_text", ExhaustedNotice, TRUE))
            /\ pc' = "idle"
            /\ UNCHANGED <<user_data, raised>>
       ELSE \E ok \in BOOLEAN :
            /\ out' = Append(out, Op("prompt", "reply_text", QuestionPrompt, ok))
            /\ IF ok
               THEN /\ user_data' = Prompted(user_data)
                    /\ pc' = "idle"
                    /\ UNCHANGED raised
               ELSE Raise /\ UNCHANGED user_data
    /\ UNCHANGED <<handler, locals, shown, frags, fetched, calls>>

----------------------------------------------------------------------------
(* handle_message: gating and project creation *)

\* the test of waiting_for_question left out
MsgIdleRefreshes ==
    /\ ~user_data.waiting_for_question
    /\ Dispatch("message")
    /\ EnterRefresh("m_refresh")

\* a text message while waiting_for_question is not set
MsgIdle ==
    /\ ~user_data.waiting_for_question
    /\ Dispatch("message")
    /\ out' = <<[Op("idle", "reply_text", StartFirst, TRUE) EXCEPT !.at = 0]>>
    /\ pc' = "idle"
    /\ raised' = FALSE

MsgDispatch ==
    /\ user_data.waiting_for_question
    /\ Dispatch("message")
    /\ EnterRefresh("m_refresh")

MsgRefresh == Refresh("m_refresh", "m_gate")

\* the session after the question is taken
Accepted(ud) == [ud EXCEPT !.waiting_for_question = FALSE]

\* the session after the exhaustion reply of handle_message
Refused(ud) == ud

MsgGate ==
    /\ pc = "m_gate"
    /\ IF ~user_data.has
       THEN Raise /\ UNCHANGED <<user_data, out, question>>
       ELSE IF Exhausted(user_data)
       THEN /\ out' = Append(out, Op("gate", "reply_text", ExhaustedNotice, TRUE))
            /\ user_data' = Refused(user_data)
            /\ pc' = "idle"
            /\ UNCHANGED <<question, raised>>
       ELSE \E q \in Questions :
            /\ question' = q
            /\ user_data' = Accepted(user_data)
            /\ pc' = "m_create"
            /\ UNCHANGED <<out, raised>>
    /\ UNCHANGED <<handler, project, messages, text_buffer, message,
                   content_buffer, shown, frags, fetched, calls>>

\* the return after a failed create_project left out
AfterCreateOpens(p) == "m_open"

\* where the handler goes when create_project returned p
AfterCreate(p) == IF p = "some" THEN "m_open" ELSE "idle"

MsgCreate ==
    /\ pc = "m_create"
    /\ created' = created + 1
    /\ \E p \in {"some", "None"} :
          /\ project' = p
          /\ pc' = AfterCreate(p)
          /\ out' = IF p = "some" THEN out
                    ELSE Append(out, Op("create", "reply_text", SystemError, TRUE))
    /\ messages' = <<>>
    /\ text_buffer' = <<>>
    /\ message' = FALSE
    /\ content_buffer' = <<>>
    /\ UNCHANGED <<user_data, handler, question, shown, frags, fetched,
                   streams, stream_end, updates, raised>>

----------------------------------------------------------------------------
(* handle_message: the stream *)

IsImage(content) ==
    StartsWith(content, ImgOpen) /\ Contains(content, ImgMid) /\ EndsWith(content, ImgClose)

IsStatus(content) == StartsWith(content, StatusMarker)

IsPlain(content) == ~IsImage(content) /\ ~IsStatus(content)

\* content.split("](")[1][:-1]
ImgUrl(content) == DropLast(Split(content, ImgMid)[2])

\* the threshold tested with > instead of >=
FlushDueAbove(cb) == Len(cb) > BUFFER_SIZE

\* len(content_buffer) >= BUFFER_SIZE
FlushDue(cb) == Len(cb) >= BUFFER_SIZE

\* text_buffer after a mid-stream flush
MidText(tb, cb) == Replace(tb \o cb, BrBr, Newline)

\* content_buffer after the first send
AfterSend(cb) == cb

\* the final flush without its guard
FinalDueAlways(cb, msg) == TRUE

\* if content_buffer and message
FinalDue(cb, msg) == cb # <<>> /\ msg

\* text_buffer after the final flush
FinalText(tb, cb) == tb \o cb

Entry(content) == [role |-> "assistant", content |-> content]

\* the image or status fragment left out of the transcript
NotRecorded(msgs, content) == msgs

\* messages.append({'role': 'assistant', 'content': content})
Recorded(msgs, content) == Append(msgs, Entry(content))

\* the except clause without its reply
FailedSilently(o, n) == o

\* the except clause of the stream: one generic failure reply
Failed(o, n) ==
    Append(o, [Op("except", "reply_text", GenericFailure, TRUE) EXCEPT !.at = n])

\* the sends wrapped in a try of their own
SendCaughtInLoop == TRUE

\* whether an exception of a send inside the loop is caught there
SendCaught == FALSE

\* message.edit_text without its try
EditNotCaught == FALSE

\* whether an exception of message.edit_text inside the loop is caught there
EditCaught == TRUE

StreamOpen ==
    /\ pc = "m_open"
    /\ streams' = streams + 1
    /\ \/ /\ pc' = "m_stream"
          /\ UNCHANGED <<out, stream_end>>
       \/ /\ pc' = "idle"
          /\ out' = Failed(out, Len(frags))
          /\ stream_end' = "raised"
    /\ UNCHANGED <<user_data, handler, locals, shown, frags, fetched, created,
                   updates, raised>>

\* an image or status fragment: one send, one transcript entry
SendOwn(content, site, kind, text) ==
    \E ok \in BOOLEAN :
       /\ IF ok \/ SendCaught
          THEN /\ out' = Append(out, DeltaOp(site, kind, text, ok))
               /\ messages' = Recorded(messages, content)
               /\ UNCHANGED <<pc, stream_end>>
          ELSE /\ out' = Failed(Append(out, DeltaOp(site, kind, text, ok)), Len(frags) + 1)
               /\ pc' = "idle"
               /\ stream_end' = "send_failed"
               /\ UNCHANGED messages
       /\ UNCHANGED <<text_buffer, message, content_buffer, shown>>

\* a plain fragment before any answer message was sent
SendHeader(cb) ==
    LET text == Header(question) \o cb IN
    \E ok \in BOOLEAN :
       /\ content_buffer' = AfterSend(cb)
       /\ IF ok
          THEN /\ out' = Append(out, DeltaOp("header", "reply_text", text, TRUE))
               /\ message' = TRUE
               /\ text_buffer' = text
               /\ shown' = text
               /\ UNCHANGED <<pc, stream_end>>
          ELSE IF SendCaught
          THEN /\ out' = Append(out, DeltaOp("header", "reply_text", text, FALSE))
               /\ UNCHANGED <<message, text_buffer, shown, pc, stream_end>>
          ELSE /\ out' = Failed(Append(out, DeltaOp("header", "reply_text", text, FALSE)), Len(frags) + 1)
               /\ pc' = "idle"
               /\ stream_end' = "send_failed"
               /\ UNCHANGED <<message, text_buffer, shown>>
       /\ UNCHANGED messages

\* a plain fragment that fills content_buffer to the threshold
EditMid(cb) ==
    LET text == MidText(text_buffer, cb) IN
    \E ok \in BOOLEAN :
       /\ text_buffer' = text
       /\ shown' = IF ok THEN text ELSE shown
       /\ IF ok \/ EditCaught
          THEN /\ out' = Append(out, DeltaOp("mid", "edit_text", text, ok))
               /\ content_buffer' = <<>>
               /\ UNCHANGED <<pc, stream_end>>
          ELSE /\ out' = Failed(Append(out, DeltaOp("mid", "edit_text", text, ok)), Len(frags) + 1)
               /\ content_buffer' = cb
               /\ pc' = "idle"
               /\ stream_end' = "edit_failed"
       /\ UNCHANGED <<messages, message>>

\* one CONVERSATION_MESSAGE_DELTA event
StreamDelta ==
    /\ pc = "m_stream"
    /\ Len(frags) < MaxFrags
    /\ \E content \in Fragments :
          /\ frags' = Append(frags, content)
          /\ IF IsImage(content)
             THEN SendOwn(content, "photo", "reply_photo", ImgUrl(content))
             ELSE IF IsStatus(content)
             THEN SendOwn(content, "status", "reply_text", StatusMarker)
             ELSE LET cb == content_buffer \o content IN
                  IF ~message THEN SendHeader(cb)
                  ELSE IF FlushDue(cb) THEN EditMid(cb)
                  ELSE /\ content_buffer' = cb
                       /\ UNCHANGED <<out, messages, text_buffer, message, shown,
                                      pc, stream_end>>
    /\ UNCHANGED <<user_data, handler, question, project, fetched, created,
                   streams, updates, raised>>

\* an event that is no CONVERSATION_MESSAGE_DELTA: nothing is done with it
StreamOther ==
    /\ pc = "m_stream"
    /\ UNCHANGED vars

\* the backend raises between two events
StreamRaise ==
    /\ pc = "m_stream"
    /\ out' = Failed(out, Len(frags))
    /\ pc' = "idle"
    /\ stream_end' = "raised"
    /\ UNCHANGED <<user_data, handler, locals, shown, frags, fetched, created,
                   streams, updates, raised>>

\* the stream ends: the final flush and the project update
StreamEnd ==
    /\ pc = "m_stream"
    /\ pc' = "idle"
    /\ stream_end' = "completed"
    /\ IF FinalDue(content_buffer, message)
       THEN LET text == FinalText(text_buffer, content_buffer)
                msgs == Append(messages, Entry(text))
            IN /\ text_buffer' = text
               /\ messages' = msgs
               /\ \E ok \in BOOLEAN :
                     /\ out' = Append(out, Op("final", "edit_text", text, ok))
                     /\ shown' = IF ok THEN text ELSE shown
                     /\ updates' = IF ok THEN Append(updates, msgs) ELSE updates
       ELSE UNCHANGED <<text_buffer, messages, out, shown, updates>>
    /\ UNCHANGED <<user_data, handler, question, project, message, content_buffer,
                   frags, fetched, created, streams, raised>>

----------------------------------------------------------------------------
(* profile *)

ProfileDispatch ==
    /\ Dispatch("profile")
    /\ EnterRefresh("p_refresh")

ProfileRefresh == Refresh("p_refresh", "p_report")

ProfileText(ud, member) ==
    <<"PROFILE", IF member THEN "member" ELSE "free",
      ToString(ud.daily_count), ToString(ud.daily_limit)>>

ProfileReport ==
    /\ pc = "p_report"
    /\ IF ~user_data.has
       THEN Raise /\ UNCHANGED out
       ELSE /\ \E member \in BOOLEAN :
                  out' = Append(out, Op("profile", "reply_text", ProfileText(user_data, member), TRUE))
            /\ pc' = "idle"
            /\ UNCHANGED raised
    /\ UNCHANGED <<user_data, handler, locals, shown, frags, fetched, calls>>

----------------------------------------------------------------------------
Next ==
    \/ StartDispatch /\ UNCHANGED overlap
    \/ StartRefresh /\ UNCHANGED overlap
    \/ StartGate /\ UNCHANGED overlap
    \/ MsgIdle /\ UNCHANGED overlap
    \/ MsgDispatch /\ UNCHANGED overlap
    \/ MsgRefresh /\ UNCHANGED overlap
    \/ MsgGate /\ UNCHANGED overlap
    \/ MsgCreate /\ UNCHANGED overlap
    \/ StreamOpen /\ UNCHANGED overlap
    \/ StreamDelta /\ UNCHANGED overlap
    \/ StreamOther /\ UNCHANGED overlap
    \/ StreamRaise /\ UNCHANGED overlap
    \/ StreamEnd /\ UNCHANGED overlap
    \/ ProfileDispatch /\ UNCHANGED overlap
    \/ ProfileRefresh /\ UNCHANGED overlap
    \/ ProfileReport /\ UNCHANGED overlap

Spec == Init /\ [][Next]_vars

----------------------------------------------------------------------------
(* Overlapping runs of start and handle_message.  A step is what a run does *)
(* between two awaits at which it can be suspended: Python runs the code    *)
(* after the last await of initialize_user_data, the return to the handler  *)
(* and the handler's code up to its next await as one piece.                *)

\* a run at its dispatch
NewRun(h, at) ==
    [handler |-> h, pc |-> at, fetched |-> NoFetch, project |-> "unset",
     reply |-> <<>>, raised |-> FALSE]

\* the run ends with this reply
Replied(run, text) == [run EXCEPT !.pc = "idle", !.reply = text]

\* the run ends by an exception it does not catch
Raised(run) == [run EXCEPT !.pc = "idle", !.raised = TRUE]

InitOverlap ==
    /\ user_data = [has |-> FALSE, daily_limit |-> 0, daily_count |-> 0,
                    waiting_for_question |-> FALSE]
    /\ handler = "none"
    /\ pc = "idle"
    /\ question = <<>>
    /\ project = "unset"
    /\ messages = <<>>
    /\ text_buffer = <<>>
    /\ message = FALSE
    /\ content_buffer = <<>>
    /\ out = <<>>
    /\ shown = <<>>
    /\ frags = <<>>
    /\ fetched = NoFetch
    /\ created = 0
    /\ streams = 0
    /\ stream_end = "none"
    /\ updates = <<>>
    /\ raised = FALSE
    /\ runs = <<>>
    /\ \E limit \in 0..MaxLimit, used \in 0..MaxUsed :
          backend = [daily_limit |-> limit, used |-> used]

\* /start arrives: the run is suspended in initialize_user_data, or ends by
\* the TypeError of first_name + " " + last_name
StartArrives ==
    /\ Len(runs) < MaxRuns
    /\ \E last_name \in BOOLEAN :
          runs' = Append(runs, IF last_name THEN NewRun("start", "s_refresh")
                               ELSE Raised(NewRun("start", "idle")))
    /\ UNCHANGED <<user_data, backend, single>>

\* a text message arrives: the test of waiting_for_question, then the run is
\* suspended in initialize_user_data, TypeError apart
MsgArrives ==
    /\ Len(runs) < MaxRuns
    /\ IF user_data.waiting_for_question
       THEN \E last_name \in BOOLEAN :
               runs' = Append(runs, IF last_name THEN NewRun("message", "m_refresh")
                                    ELSE Raised(NewRun("message", "idle")))
       ELSE runs' = Append(runs, Replied(NewRun("message", "idle"), StartFirst))
    /\ UNCHANGED <<user_data, backend, single>>

\* what initialize_user_data fetches from the backend
Fetch(resolved) ==
    IF resolved
    THEN [state |-> "ok", limit |-> backend.daily_limit, used |-> backend.used]
    ELSE [state |-> "failed", limit |-> 0, used |-> 0]

\* the session initialize_user_data leaves
AfterFetch(ud, f) ==
    IF f.state = "ok" THEN Refreshed(ud, f.limit, f.used) ELSE ud

\* initialize_user_data returns to start, which goes on to its next await
StartResumes(r) ==
    /\ runs[r].pc = "s_refresh"
    /\ \E resolved \in BOOLEAN :
          LET f == Fetch(resolved)
              ud == AfterFetch(user_data, f)
              run == [runs[r] EXCEPT !.fetched = f]
          IN /\ user_data' = ud
             /\ runs' = [runs EXCEPT ![r] =
                            IF ~ud.has THEN Raised(run)
                            ELSE IF Exhausted(ud) THEN Replied(run, ExhaustedNotice)
                            ELSE [run EXCEPT !.pc = "s_prompt"]]
    /\ UNCHANGED <<backend, single>>

\* the reply_text of the prompt returns, or raises
StartPrompts(r) ==
    /\ runs[r].pc = "s_prompt"
    /\ \E ok \in BOOLEAN :
          IF ok
          THEN /\ user_data' = Prompted(user_data)
               /\ runs' = [runs EXCEPT ![r] = Replied(@, QuestionPrompt)]
          ELSE /\ user_data' = user_data
               /\ runs' = [runs EXCEPT ![r] = Raised(@)]
    /\ UNCHANGED <<backend, single>>

\* initialize_user_data returns to handle_message, which goes on to its
\* next await
MsgResumes(r) ==
    /\ runs[r].pc = "m_refresh"
    /\ \E resolved \in BOOLEAN :
          LET f == Fetch(resolved)
              ud == AfterFetch(user_data, f)
              run == [runs[r] EXCEPT !.fetched = f]
          IN IF ~ud.has
             THEN /\ user_data' = ud
                  /\ runs' = [runs EXCEPT ![r] = Raised(run)]
             ELSE IF Exhausted(ud)
             THEN /\ user_data' = Refused(ud)
                  /\ runs' = [runs EXCEPT ![r] = Replied(run, ExhaustedNotice)]
             ELSE /\ user_data' = Accepted(ud)
                  /\ runs' = [runs EXCEPT ![r] = [run EXCEPT !.pc = "m_create"]]
    /\ UNCHANGED <<backend, single>>

\* the backend after create_project returned p
Counted(b, p) == IF p = "some" THEN [b EXCEPT !.used = @ + 1] ELSE b

\* create_project returns
MsgCreates(r) ==
    /\ runs[r].pc = "m_create"
    /\ \E p \in {"some", "None"} :
          /\ backend' = Counted(backend, p)
          /\ runs' = [runs EXCEPT ![r] =
                         [@ EXCEPT !.project = p,
                                   !.pc = AfterCreate(p),
                                   !.reply = IF p = "some" THEN <<>> ELSE SystemError]]
    /\ UNCHANGED <<user_data, single>>

NextOverlap ==
    \/ StartArrives
    \/ MsgArrives
    \/ \E r \in DOMAIN runs : StartResumes(r)
    \/ \E r \in DOMAIN runs : StartPrompts(r)
    \/ \E r \in DOMAIN runs : MsgResumes(r)
    \/ \E r \in DOMAIN runs : MsgCreates(r)

SpecOverlap == InitOverlap /\ [][NextOverlap]_vars

----------------------------------------------------------------------------
(* What a run shows *)

Concat(ss) == Flatten(ss, 1, Len(ss))

ExhaustedReply == Op("gate", "reply_text", ExhaustedNotice, TRUE)

GenericReplies == Cardinality({i \in DOMAIN out : out[i].text = GenericFailure})

FailedSends == {i \in DOMAIN out : out[i].site \in {"photo", "status", "header"} /\ ~out[i].ok}

FailedMidEdits == {i \in DOMAIN out : out[i].site = "mid" /\ ~out[i].ok}

\* out[j] is the first edit issued after out[i]
IsNextEdit(i, j) ==
    /\ i < j
    /\ out[j].op = "edit_text"
    /\ \A k \in (i + 1)..(j - 1) : out[k].op # "edit_text"

\* the plain fragments that arrived after fragment a, up to fragment b
PlainSince(a, b) == SelectSeq(SubSeq(frags, a + 1, b), IsPlain)

\* the refresh of the run fetched limit and used count, and nothing is left
QuotaFetchedExhausted == fetched.state = "ok" /\ fetched.limit - fetched.used <= 0

\* the run is at or past its gate, and the session holds no allowance
GateSeesExhausted ==
    /\ fetched.state # "none"
    /\ user_data.has
    /\ user_data.daily_count <= 0

----------------------------------------------------------------------------
(* Claims *)

\* C1: in a run of /start or of the message handler, the allowance the gate
\* tests is daily_limit - used_count as the run fetched them, and when it is
\* <= 0 the handler goes no further than the gate: its only reply is the
\* exhaustion notice, no question is taken, create_project is not called
\* and no stream is opened.
C1_QuotaGating ==
    /\ (handler \in {"start", "message"} /\ fetched.state = "ok") =>
          user_data.daily_count = fetched.limit - fetched.used
    /\ (handler \in {"start", "message"} /\ GateSeesExhausted) =>
          /\ pc \in {"s_gate", "m_gate", "idle"}
          /\ question = <<>>
          /\ created = 0
          /\ streams = 0
          /\ pc = "idle" => out = <<ExhaustedReply>>

C1_Witness ==
    /\ handler = "message"
    /\ pc = "idle"
    /\ QuotaFetchedExhausted
    /\ out = <<ExhaustedReply>>

\* C2 (as claimed): after a message-handler run that replied with the
\* exhaustion notice, waiting_for_question is false.
C2_ExhaustedMessageRevertsToIdle ==
    (handler = "message" /\ pc = "idle" /\ out = <<ExhaustedReply>>) =>
        ~user_data.waiting_for_question

\* C3 (as claimed): a run whose refresh could not resolve the user ends with
\* the generic system-error reply as its only reply, without prompting,
\* creating a project or opening a stream, and not by an exception.
C3_UserFailureAborts ==
    (fetched.state = "failed" /\ pc = "idle") =>
        /\ Len(out) = 1
        /\ out[1].text = SystemError
        /\ ~raised
        /\ created = 0
        /\ streams = 0

\* C4 (as claimed): when a stream of plain fragments only completes and every
\* outbound operation succeeded, the answer message displays the header
\* followed by the fragments in order, each once, with "<br><br>" replaced
\* by a newline.
C4_FinalTextIsConcatenation ==
    ( /\ stream_end = "completed"
      /\ frags # <<>>
      /\ \A i \in DOMAIN frags : IsPlain(frags[i])
      /\ \A i \in DOMAIN out : out[i].ok ) =>
        shown = Header(question) \o Replace(Concat(frags), BrBr, Newline)

\* C5 (as claimed): when the stream completes, update_project_messages has
\* been called exactly once, with the accumulated message list.
C5_UpdatedOnceAtCompletion ==
    stream_end = "completed" =>
        /\ Len(updates) = 1
        /\ updates[1] = messages

\* C6: update_project_messages is called at most once per question, and only
\* when the header message of the answer was sent successfully.
C6_UpdateAtMostOnceAfterHeader ==
    /\ Len(updates) <= 1
    /\ updates # <<>> =>
          \E i \in DOMAIN out :
             /\ out[i].op = "reply_text"
             /\ out[i].ok
             /\ StartsWith(out[i].text, Header(question))

C6_Witness ==
    /\ Len(updates) = 1
    /\ Len(frags) > 1

\* C7: a stream is opened only after create_project returned a project; when
\* it returned none, the handler has ended with the system-error reply as
\* its only reply, no stream and no update_project_messages call.
C7_ProjectBeforeStream ==
    /\ (streams > 0 \/ pc \in {"m_open", "m_stream"}) => (project = "some" /\ created = 1)
    /\ project = "None" =>
          /\ pc = "idle"
          /\ out = <<Op("create", "reply_text", SystemError, TRUE)>>
          /\ streams = 0
          /\ updates = <<>>

C7_Witness ==
    /\ handler = "message"
    /\ project = "None"
    /\ created = 1
    /\ pc = "idle"

\* C8: when the chat backend raised, at the opening of the stream or after
\* any number of events, the handler has ended, exactly one generic failure
\* reply was sent and update_project_messages was not called.
C8_BackendFailure ==
    stream_end = "raised" =>
        /\ pc = "idle"
        /\ GenericReplies = 1
        /\ out[Len(out)].text = GenericFailure
        /\ updates = <<>>

C8_Witness ==
    /\ stream_end = "raised"
    /\ Len(frags) > 1
    /\ message
    /\ content_buffer # <<>>

\* C9 (as claimed): after a failed photo, status or header send the handler
\* goes on with the stream, and the generic failure reply is not sent
\* because of it.
C9_SendFailureNonFatal ==
    \A i \in FailedSends :
        /\ stream_end # "send_failed"
        /\ i = Len(out) => pc = "m_stream"
        /\ (i < Len(out) /\ out[i + 1].site = "except") => stream_end = "raised"

\* C9 (amended): a failed photo, status or header send ends the stream: the
\* generic failure reply follows it as the last operation and the only such
\* reply, no later fragment is handled and update_project_messages is not
\* called.
C9_SendFailureEndsStream ==
    \A i \in FailedSends :
        /\ pc = "idle"
        /\ i + 1 = Len(out)
        /\ out[i + 1].text = GenericFailure
        /\ GenericReplies = 1
        /\ Len(frags) = out[i].at
        /\ updates = <<>>

C9_Witness ==
    \E i \in FailedSends : out[i].site = "photo" /\ i > 1

\* a failed mid-stream edit does not end the stream
EditFailureSwallowed ==
    /\ stream_end # "edit_failed"
    /\ \A i \in FailedMidEdits :
          /\ i = Len(out) => (pc = "m_stream" \/ stream_end = "completed")
          /\ (i < Len(out) /\ out[i + 1].site = "except") => stream_end = "raised"

\* C10 (as claimed): a failed mid-stream edit does not end the stream, and
\* the text it carried is contained in the text of the next edit issued.
C10_FailedEditTextContained ==
    /\ EditFailureSwallowed
    /\ \A i \in FailedMidEdits, j \in DOMAIN out :
          IsNextEdit(i, j) => Contains(out[j].text, out[i].text)

\* C10 (amended): a failed mid-stream edit does not end the stream, and the
\* next edit issued carries the text of the failed one followed by the plain
\* fragments that arrived since, the line-break markers of the whole being
\* replaced when that edit is a mid-stream one.
C10_FailedEditTextCarried ==
    /\ EditFailureSwallowed
    /\ \A i \in FailedMidEdits, j \in DOMAIN out :
          IsNextEdit(i, j) =>
             LET whole == out[i].text \o Concat(PlainSince(out[i].at, out[j].at))
             IN out[j].text = IF out[j].site = "mid"
                              THEN Replace(whole, BrBr, Newline)
                              ELSE whole

C10_Witness ==
    \E i \in FailedMidEdits, j \in DOMAIN out :
        /\ IsNextEdit(i, j)
        /\ out[j].site = "mid"

\* C11 (as claimed): after a /start run that fetched the quota, the session
\* is awaiting_question only if the remaining allowance it fetched was > 0.
C11_StartAwaitsOnlyWithQuota ==
    ( /\ handler = "start"
      /\ pc = "idle"
      /\ fetched.state = "ok"
      /\ user_data.waiting_for_question ) =>
        fetched.limit - fetched.used > 0

\* a plain fragment arrives after the header message was sent
PlainAfterHeader ==
    /\ pc = "m_stream"
    /\ message
    /\ Len(frags') = Len(frags) + 1
    /\ ~IsImage(frags'[Len(frags')])
    /\ ~IsStatus(frags'[Len(frags')])

\* C12: when a plain fragment arrives after the header message was sent, an
\* edit is issued if and only if content_buffer with the fragment appended
\* holds at least 30 characters; the edit is the only operation issued and
\* leaves content_buffer empty; below the threshold nothing is issued and
\* the fragment stays in content_buffer.
C12_EditThrottling ==
    [][PlainAfterHeader =>
          LET cb == content_buffer \o frags'[Len(frags')]
          IN IF Len(cb) >= 30
             THEN /\ Len(out') = Len(out) + 1
                  /\ out'[Len(out')].op = "edit_text"
                  /\ out'[Len(out')].text = text_buffer'
                  /\ content_buffer' = <<>>
             ELSE /\ out' = out
                  /\ content_buffer' = cb]_vars

C12_Witness ==
    /\ frags = <<FragA, FragTail29, FragA>>
    /\ pc = "m_stream"
    /\ content_buffer = FragA
    /\ \E i \in DOMAIN out : out[i].site = "mid" /\ out[i].at = 2

\* the index of the first and of the last "](" of an image fragment
FirstMid(content) ==
    CHOOSE i \in 1..Len(content) :
        MatchAt(content, i, ImgMid) /\ \A j \in 1..(i - 1) : ~MatchAt(content, j, ImgMid)

LastMid(content) ==
    CHOOSE i \in 1..Len(content) :
        MatchAt(content, i, ImgMid) /\ \A j \in (i + 1)..Len(content) : ~MatchAt(content, j, ImgMid)

\* the text between the "](" at index i and the closing ")"
UrlFrom(content, i) == SubSeq(content, i + Len(ImgMid), Len(content) - 1)

\* an image fragment arrives
ImageArrives ==
    /\ pc = "m_stream"
    /\ Len(frags') = Len(frags) + 1
    /\ StartsWith(frags'[Len(frags')], ImgOpen)
    /\ Contains(frags'[Len(frags')], ImgMid)
    /\ EndsWith(frags'[Len(frags')], ImgClose)

\* C13 (as claimed, the transcript entry being asked only of a send that
\* succeeded): an image fragment yields one photo send whose URL is the text
\* between "](" (the first or the last one) and the closing ")", is recorded
\* as one transcript entry, and leaves content_buffer and text_buffer as
\* they were.
C13_ImageSentWithItsUrl ==
    [][ImageArrives =>
          LET content == frags'[Len(frags')]
              sent == out'[Len(out) + 1]
          IN /\ Len(out') > Len(out)
             /\ sent.op = "reply_photo"
             /\ sent.text \in {UrlFrom(content, FirstMid(content)),
                               UrlFrom(content, LastMid(content))}
             /\ \A i \in (Len(out) + 2)..Len(out') : out'[i].op # "reply_photo"
             /\ sent.ok => messages' = Append(messages, [role |-> "assistant",
                                                         content |-> content])
             /\ UNCHANGED <<content_buffer, text_buffer>>]_vars

\* a status fragment arrives
StatusArrives ==
    /\ pc = "m_stream"
    /\ Len(frags') = Len(frags) + 1
    /\ ~IsImage(frags'[Len(frags')])
    /\ StartsWith(frags'[Len(frags')], StatusMarker)

\* a status fragment is sent as a text message of its own and leaves
\* content_buffer and text_buffer as they were
StatusSentAlone ==
    /\ Len(out') > Len(out)
    /\ out'[Len(out) + 1].op = "reply_text"
    /\ out'[Len(out) + 1].text = StatusMarker
    /\ UNCHANGED <<content_buffer, text_buffer>>

\* C14 (as claimed): a status fragment is sent as a text message of its own,
\* is recorded as one transcript entry, and leaves content_buffer and
\* text_buffer as they were.
C14_StatusAlwaysRecorded ==
    [][StatusArrives =>
          /\ StatusSentAlone
          /\ messages' = Append(messages, [role |-> "assistant",
                                           content |-> frags'[Len(frags')]])]_vars

\* C14 (amended): a status fragment is sent as a text message of its own and
\* leaves content_buffer and text_buffer as they were; when the send
\* succeeds it is recorded as one transcript entry and the stream goes on,
\* when the send fails nothing is recorded and the stream ends.
C14_StatusRecordedWhenSent ==
    [][StatusArrives =>
          /\ StatusSentAlone
          /\ IF out'[Len(out) + 1].ok
             THEN /\ messages' = Append(messages, [role |-> "assistant",
                                                   content |-> frags'[Len(frags')]])
                  /\ pc' = "m_stream"
                  /\ Len(out') = Len(out) + 1
             ELSE /\ messages' = messages
                  /\ pc' = "idle"]_vars

C14_Witness ==
    /\ frags = <<FragA, FragStatus>>
    /\ pc = "m_stream"
    /\ content_buffer = FragA
    /\ out[Len(out)].site = "status"
    /\ out[Len(out)].ok
    /\ messages = <<[role |-> "assistant", content |-> FragStatus]>>

\* C15: a text message dispatched while waiting_for_question is not set is
\* answered with the start-first instruction and nothing else: the handler
\* ends at once, without a quota refresh, a create_project call or a stream,
\* and the session is as it was.
C15_IdleMessage ==
    [][(pc = "idle" /\ ~user_data.waiting_for_question /\ handler' = "message") =>
          /\ pc' = "idle"
          /\ Len(out') = 1
          /\ out'[1].op = "reply_text"
          /\ out'[1].text = StartFirst
          /\ fetched' = NoFetch
          /\ created' = 0
          /\ streams' = 0
          /\ ~raised'
          /\ user_data' = user_data]_vars

C15_Witness ==
    /\ handler = "message"
    /\ pc = "idle"
    /\ Len(out) = 1
    /\ out[1].text = StartFirst
    /\ user_data.has
    /\ user_data.daily_count > 0

\* the image and status fragments among those that arrived, in order
OwnFragments == SelectSeq(frags, LAMBDA f : ~IsPlain(f))

\* C16: a persisted transcript holds one assistant entry per image or status
\* fragment, in arrival order, then one last assistant entry whose content
\* is the text the answer message displays; plain fragments have no entries
\* of their own.
C16_TranscriptShape ==
    \A u \in DOMAIN updates :
        updates[u] =
            [i \in 1..Len(OwnFragments) |->
                [role |-> "assistant", content |-> OwnFragments[i]]]
            \o <<[role |-> "assistant", content |-> shown]>>

C16_Witness ==
    /\ Len(updates) = 1
    /\ Len(updates[1]) = 2
    /\ frags[1] = FragStatus
    /\ Len(frags) = 3

\* the runs of handle_message that took their message as the question
TookQuestion == {r \in DOMAIN runs : runs[r].handler = "message"
                                     /\ (runs[r].pc = "m_create" \/ runs[r].project # "unset")}

\* the runs of handle_message whose project was created
GotProject == {r \in DOMAIN runs : runs[r].project = "some"}

\* what a run saw left of the day's allowance
SawLeft(r) == runs[r].fetched.limit - runs[r].fetched.used

====
